---- MODULE Spec2Model ----
(***************************************************************************)
(* Model of the FFmpeg bridging layer of SirSnoopsALot:                    *)
(*   FFmpegBridge.h     FFAbort (the cancellation gate)                    *)
(*   FFmpegInterrupt.c  ff_interrupt_cb_internal, ff_install_interrupt_cb, *)
(*                      fferr_eagain, fferr_eof                            *)
(*   FFmpegHWAccel.c    ssa_get_hw_format, ssa_setup_videotoolbox          *)
(* The host application and the native library are the environment: the   *)
(* host writes gate flags and calls the entry points, the library polls    *)
(* the installed interrupt callback during a blocking read and invokes the *)
(* installed get_format hook during decoder initialisation.                *)
(***************************************************************************)
EXTENDS Integers, Sequences, FiniteSets, TLC

\* ------------------------------------------------------------- bounds
NumGates == 1
MaxFlag == 2
NumFmtCtx == 2
NumCodecCtx == 1
MaxBufs == 2
MaxLen == 3

\* ---------------------------------------------------------- constants
NULL == 0

Gates == 1..NumGates
FmtCtxs == 1..NumFmtCtx
CodecCtxs == 1..NumCodecCtx
Buffers == 1..MaxBufs

\* values the host stores into FFAbort.flag to signal (non-zero)
SignalValues == 1..MaxFlag

\* errno values of the target platform (Darwin) and FFmpeg's error macros
EAGAIN == 35
ENOMEM == 12
ENOSYS == 78
AVERROR(e) == -e
MKTAG(a, b, c, d) == a + b * 256 + c * 65536 + d * 16777216
FFERRTAG(a, b, c, d) == -MKTAG(a, b, c, d)
AVERROR_EOF == FFERRTAG(69, 79, 70, 32)
AVERROR_EXIT == FFERRTAG(69, 88, 73, 84)

\* pixel formats
AV_PIX_FMT_NONE == "NONE"
AV_PIX_FMT_VIDEOTOOLBOX == "VIDEOTOOLBOX"
SoftwareFormats == {"YUV420P", "NV12"}
Formats == {AV_PIX_FMT_VIDEOTOOLBOX} \cup SoftwareFormats

\* well-formed candidate lists: 1..MaxLen entries, then the NONE terminator
PixFmtLists ==
  {Append(s, AV_PIX_FMT_NONE) : s \in UNION {[1..n -> Formats] : n \in 1..MaxLen}}

\* ------------------------------------------------------------- state
VARIABLES
  flag,        \* FFAbort.flag of every gate
  fmt_ctx,     \* AVFormatContext.interrupt_callback of every streaming context
  codec,       \* AVCodecContext.get_format / hw_device_ctx of every codec context
  refcount,    \* reference count of every hardware device context buffer
  reader,      \* the thread performing a blocking read inside the library:
               \* observed is the latest result of the interrupt callback,
               \* clear whether an earlier checkpoint of this read saw continue
  fault,       \* a store through a null pointer happened
  installed,   \* history: gate passed to the latest install on each context
  sentinels,   \* history: values the sentinel accessors have returned
  lastOp       \* history: the latest operation, its arguments and its result

vars == <<flag, fmt_ctx, codec, refcount, reader, fault, installed, sentinels, lastOp>>

\* ---------------------------------------------- FFmpegInterrupt.c
\* variant: compares the flag with 1 instead of testing it for non-zero
ff_interrupt_cb_internal_eq1(fl, opaque) ==
  IF opaque # NULL /\ fl[opaque] = 1 THEN 1 ELSE 0

ff_interrupt_cb_internal(fl, opaque) ==
  IF opaque # NULL /\ fl[opaque] # 0 THEN 1 ELSE 0

\* the library's checkpoint: calls the installed callback, if any
ff_check_interrupt(fc, fl, c) ==
  IF fc[c].callback = "ff_interrupt_cb_internal"
  THEN ff_interrupt_cb_internal(fl, fc[c].opaque)
  ELSE 0

Memory == [fmt_ctx |-> fmt_ctx, flag |-> flag, fault |-> fault]

\* variant: clears the gate it installs
ff_install_interrupt_cb_reset(mem, fmt, abortFlag) ==
  IF fmt = NULL
  THEN mem
  ELSE [mem EXCEPT !.fmt_ctx[fmt] =
          [callback |-> "ff_interrupt_cb_internal", opaque |-> abortFlag],
                   !.flag = [g \in Gates |-> IF g = abortFlag THEN 0 ELSE @[g]]]

\* variant: stores the gate but not the callback
ff_install_interrupt_cb_nocb(mem, fmt, abortFlag) ==
  IF fmt = NULL
  THEN mem
  ELSE [mem EXCEPT !.fmt_ctx[fmt].opaque = abortFlag]

\* variant: the null test is made on the gate instead of the context
ff_install_interrupt_cb_wrongtest(mem, fmt, abortFlag) ==
  IF abortFlag = NULL
  THEN mem
  ELSE IF fmt = NULL
       THEN [mem EXCEPT !.fault = TRUE]
       ELSE [mem EXCEPT !.fmt_ctx[fmt] =
               [callback |-> "ff_interrupt_cb_internal", opaque |-> abortFlag]]

\* variant: a null gate is not stored
ff_install_interrupt_cb_skipnull(mem, fmt, abortFlag) ==
  IF fmt = NULL \/ abortFlag = NULL
  THEN mem
  ELSE [mem EXCEPT !.fmt_ctx[fmt] =
          [callback |-> "ff_interrupt_cb_internal", opaque |-> abortFlag]]

ff_install_interrupt_cb(mem, fmt, abortFlag) ==
  IF fmt = NULL
  THEN mem
  ELSE [mem EXCEPT !.fmt_ctx[fmt] =
          [callback |-> "ff_interrupt_cb_internal", opaque |-> abortFlag]]

\* variant: the errno value is returned without AVERROR
fferr_eagain_raw == EAGAIN

fferr_eagain == AVERROR(EAGAIN)

fferr_eof == AVERROR_EOF

\* ------------------------------------------------ FFmpegHWAccel.c
RECURSIVE ssa_scan(_, _)
ssa_scan(pix_fmts, p) ==
  IF pix_fmts[p] # AV_PIX_FMT_NONE
  THEN IF pix_fmts[p] = AV_PIX_FMT_VIDEOTOOLBOX
       THEN pix_fmts[p]
       ELSE ssa_scan(pix_fmts, p + 1)
  ELSE pix_fmts[1]

\* variant: only the first candidate is compared with the hardware format
ssa_get_hw_format_first(pix_fmts) == pix_fmts[1]

\* variant: the fallback is the entry before the terminator
ssa_get_hw_format_last(pix_fmts) ==
  IF \E i \in 1..Len(pix_fmts) : pix_fmts[i] = AV_PIX_FMT_VIDEOTOOLBOX
  THEN AV_PIX_FMT_VIDEOTOOLBOX
  ELSE pix_fmts[Len(pix_fmts) - 1]

ssa_get_hw_format(pix_fmts) == ssa_scan(pix_fmts, 1)

\* the library's own selection when no hook was installed: first software format
avcodec_default_get_format(pix_fmts) ==
  LET sw == {i \in 1..Len(pix_fmts) : pix_fmts[i] \in SoftwareFormats}
  IN IF sw = {} THEN AV_PIX_FMT_NONE
     ELSE pix_fmts[CHOOSE i \in sw : \A j \in sw : i <= j]

\* av_buffer_ref: a new reference to buf, or NULL when its allocation fails
av_buffer_ref(rc, buf, ok) ==
  IF ok THEN [rc |-> [rc EXCEPT ![buf] = @ + 1], ref |-> buf]
  ELSE [rc |-> rc, ref |-> NULL]

\* av_buffer_unref: drops one reference; the buffer is freed at zero
av_buffer_unref(rc, buf) == [rc EXCEPT ![buf] = @ - 1]

\* variant: the hook is stored before the device context is created
ssa_setup_videotoolbox_early(cdc, rc, ctx, err, buf, refOk) ==
  LET cdc0 == [cdc EXCEPT ![ctx].get_format = "ssa_get_hw_format"]
  IN IF err < 0
     THEN [codec |-> cdc0, refcount |-> rc, ret |-> err]
     ELSE LET rc1 == [rc EXCEPT ![buf] = 1]
              r == av_buffer_ref(rc1, buf, refOk)
              cdc1 == [cdc0 EXCEPT ![ctx].hw_device_ctx = r.ref]
              rc2 == av_buffer_unref(r.rc, buf)
          IN [codec |-> cdc1, refcount |-> rc2, ret |-> 0]

\* err, buf: the outcome of av_hwdevice_ctx_create (err < 0, or 0 and a new
\* buffer holding one reference); refOk: whether av_buffer_ref succeeds
ssa_setup_videotoolbox(cdc, rc, ctx, err, buf, refOk) ==
  IF err < 0
  THEN [codec |-> cdc, refcount |-> rc, ret |-> err]
  ELSE LET rc1 == [rc EXCEPT ![buf] = 1]
           r == av_buffer_ref(rc1, buf, refOk)
           cdc1 == [cdc EXCEPT ![ctx].hw_device_ctx = r.ref]
           rc2 == av_buffer_unref(r.rc, buf)
           cdc2 == [cdc1 EXCEPT ![ctx].get_format = "ssa_get_hw_format"]
       IN [codec |-> cdc2, refcount |-> rc2, ret |-> 0]

\* ------------------------------------------------------------- Init
Init ==
  /\ flag = [g \in Gates |-> 0]
  /\ fmt_ctx = [c \in FmtCtxs |-> [callback |-> "NULL", opaque |-> NULL]]
  /\ codec = [c \in CodecCtxs |->
                [get_format |-> "avcodec_default_get_format", hw_device_ctx |-> NULL]]
  /\ refcount = [b \in Buffers |-> 0]
  /\ reader = [pc |-> "idle", ctx |-> NULL, observed |-> 0, clear |-> FALSE, ret |-> 0]
  /\ fault = FALSE
  /\ installed = [c \in FmtCtxs |-> -1]
  /\ sentinels = [eagain |-> {}, eof |-> {}]
  /\ lastOp = [op |-> "init"]

\* ---------------------------------------------------------- actions
\* host: signal a gate from any thread
HostSetFlag(g, v) ==
  /\ flag' = [flag EXCEPT ![g] = v]
  /\ lastOp' = [op |-> "set_flag"]
  /\ UNCHANGED <<fmt_ctx, codec, refcount, reader, fault, installed, sentinels>>

\* host: ff_install_interrupt_cb(fmt, abortFlag)
Install(fmt, abortFlag) ==
  LET m == ff_install_interrupt_cb(Memory, fmt, abortFlag)
  IN /\ fmt_ctx' = m.fmt_ctx
     /\ flag' = m.flag
     /\ fault' = m.fault
     /\ installed' = IF fmt = NULL THEN installed
                     ELSE [installed EXCEPT ![fmt] = abortFlag]
     /\ lastOp' = [op |-> "install", fmt |-> fmt, gate |-> abortFlag]
     /\ UNCHANGED <<codec, refcount, reader, sentinels>>

\* host: start a blocking read on a streaming context
StartRead(c) ==
  /\ reader.pc = "idle"
  /\ reader' = [pc |-> "reading", ctx |-> c, observed |-> 0, clear |-> FALSE, ret |-> 0]
  /\ lastOp' = [op |-> "read_start"]
  /\ UNCHANGED <<flag, fmt_ctx, codec, refcount, fault, installed, sentinels>>

\* library: one checkpoint of the blocking read
Poll ==
  /\ reader.pc = "reading"
  /\ LET r == ff_check_interrupt(fmt_ctx, flag, reader.ctx)
     IN /\ \/ /\ r # 0
              /\ reader' = [reader EXCEPT !.pc = "done", !.observed = r,
                                          !.ret = AVERROR_EXIT]
           \/ /\ r = 0
              /\ \E out \in {"more", "data", "again"} :
                   reader' = [reader EXCEPT
                     !.pc = IF out = "more" THEN "reading" ELSE "done",
                     !.observed = r,
                     !.clear = TRUE,
                     !.ret = IF out = "again" THEN AVERROR(EAGAIN) ELSE 0]
        /\ lastOp' = [op |-> "poll", ctx |-> reader.ctx, ret |-> r]
  /\ UNCHANGED <<flag, fmt_ctx, codec, refcount, fault, installed, sentinels>>

\* host: the read call has returned
ReturnRead ==
  /\ reader.pc = "done"
  /\ reader' = [pc |-> "idle", ctx |-> NULL, observed |-> 0, clear |-> FALSE, ret |-> 0]
  /\ lastOp' = [op |-> "read_return"]
  /\ UNCHANGED <<flag, fmt_ctx, codec, refcount, fault, installed, sentinels>>

\* host: fferr_eagain()
CallEagain ==
  /\ sentinels' = [sentinels EXCEPT !.eagain = @ \cup {fferr_eagain}]
  /\ lastOp' = [op |-> "fferr_eagain", ret |-> fferr_eagain]
  /\ UNCHANGED <<flag, fmt_ctx, codec, refcount, reader, fault, installed>>

\* host: fferr_eof()
CallEof ==
  /\ sentinels' = [sentinels EXCEPT !.eof = @ \cup {fferr_eof}]
  /\ lastOp' = [op |-> "fferr_eof", ret |-> fferr_eof]
  /\ UNCHANGED <<flag, fmt_ctx, codec, refcount, reader, fault, installed>>

\* a codec context not yet configured for hardware use
Unconfigured(ctx) ==
  /\ codec[ctx].get_format = "avcodec_default_get_format"
  /\ codec[ctx].hw_device_ctx = NULL

\* host: ssa_setup_videotoolbox(ctx); device creation fails with err
SetupFail(ctx, err) ==
  LET s == ssa_setup_videotoolbox(codec, refcount, ctx, err, NULL, TRUE)
  IN /\ codec' = s.codec
     /\ refcount' = s.refcount
     /\ lastOp' = [op |-> "setup", ctx |-> ctx, err |-> err, ret |-> s.ret,
                   fresh |-> Unconfigured(ctx)]
     /\ UNCHANGED <<flag, fmt_ctx, reader, fault, installed, sentinels>>

\* host: ssa_setup_videotoolbox(ctx); device creation yields the new buffer buf
SetupCreated(ctx, buf, refOk) ==
  /\ refcount[buf] = 0
  /\ LET s == ssa_setup_videotoolbox(codec, refcount, ctx, 0, buf, refOk)
     IN /\ codec' = s.codec
        /\ refcount' = s.refcount
        /\ lastOp' = [op |-> "setup", ctx |-> ctx, err |-> 0, ret |-> s.ret,
                      fresh |-> Unconfigured(ctx)]
  /\ UNCHANGED <<flag, fmt_ctx, reader, fault, installed, sentinels>>

\* library: decoder initialisation asks the codec context's hook for a format
Decode(ctx, pix_fmts) ==
  /\ lastOp' = [op |-> "get_format", ctx |-> ctx, hook |-> codec[ctx].get_format,
                pix_fmts |-> pix_fmts,
                ret |-> IF codec[ctx].get_format = "ssa_get_hw_format"
                        THEN ssa_get_hw_format(pix_fmts)
                        ELSE avcodec_default_get_format(pix_fmts)]
  /\ UNCHANGED <<flag, fmt_ctx, codec, refcount, reader, fault, installed, sentinels>>

CreateErrors == {AVERROR(ENOMEM), AVERROR(ENOSYS)}

\* candidate lists with a single entry
ProbeLists == {l \in PixFmtLists : Len(l) = 2}

\* the cancellation gate: host threads and the library's blocking read
NextGate ==
  \/ \E g \in Gates, v \in SignalValues : HostSetFlag(g, v)
  \/ \E f \in FmtCtxs \cup {NULL}, g \in Gates \cup {NULL} : Install(f, g)
  \/ \E c \in FmtCtxs : StartRead(c)
  \/ Poll
  \/ ReturnRead

\* hardware setup and format negotiation
NextHW ==
  \/ \E c \in CodecCtxs, e \in CreateErrors : SetupFail(c, e)
  \/ \E c \in CodecCtxs, b \in Buffers, ok \in BOOLEAN : SetupCreated(c, b, ok)
  \/ \E c \in CodecCtxs, l \in PixFmtLists : Decode(c, l)

\* every operation of the bridge, interleaved
Next ==
  \/ \E g \in Gates, v \in SignalValues : HostSetFlag(g, v)
  \/ \E f \in FmtCtxs \cup {NULL}, g \in Gates \cup {NULL} : Install(f, g)
  \/ \E c \in FmtCtxs : StartRead(c)
  \/ Poll
  \/ ReturnRead
  \/ CallEagain
  \/ CallEof
  \/ \E c \in CodecCtxs, e \in CreateErrors : SetupFail(c, e)
  \/ \E c \in CodecCtxs, b \in Buffers, ok \in BOOLEAN : SetupCreated(c, b, ok)
  \/ \E c \in CodecCtxs, l \in ProbeLists : Decode(c, l)

\* the cancellation scenario: the hook of a context is installed before a read
\* on it starts and is left alone while that read is in progress
NextRead ==
  \/ \E g \in Gates, v \in SignalValues : HostSetFlag(g, v)
  \/ \E f \in FmtCtxs \cup {NULL}, g \in Gates \cup {NULL} :
        /\ ~(reader.pc = "reading" /\ reader.ctx = f)
        /\ Install(f, g)
  \/ \E c \in FmtCtxs : StartRead(c)
  \/ Poll
  \/ ReturnRead

Spec == Init /\ [][Next]_vars

SpecGate == Init /\ [][NextGate]_vars

SpecHW == Init /\ [][NextHW]_vars

\* the library keeps polling while the read is in progress
SpecLive == Init /\ [][NextRead]_vars /\ WF_vars(Poll)

\* ------------------------------------------------------------ claims
Hooked(c) == fmt_ctx[c].callback = "ff_interrupt_cb_internal"

\* the hook of context c reads a gate whose flag is signaled
HookSignaled(c) ==
  /\ Hooked(c)
  /\ fmt_ctx[c].opaque # NULL
  /\ flag[fmt_ctx[c].opaque] # 0

\* the latest install on context c passed a gate whose flag is signaled
GateSignaled(c) == installed[c] \in Gates /\ flag[installed[c]] # 0

\* entries of a candidate list before its terminator
Entries(pix_fmts) == {pix_fmts[i] : i \in 1..(Len(pix_fmts) - 1)}

\* C1: an interrupt check through the installed callback returns 1 exactly
\* when the gate pointer is non-null and the gate's flag is non-zero at the
\* check, and 0 in every other case.
C1_PredicateIff ==
  (lastOp.op = "poll" /\ Hooked(lastOp.ctx)) =>
    LET o == fmt_ctx[lastOp.ctx].opaque
    IN /\ lastOp.ret \in {0, 1}
       /\ lastOp.ret = 1 <=> (o # NULL /\ flag[o] # 0)

C1_Witness ==
  /\ lastOp.op = "poll"
  /\ Hooked(lastOp.ctx)
  /\ fmt_ctx[lastOp.ctx].opaque # NULL
  /\ flag[fmt_ctx[lastOp.ctx].opaque] = 2
  /\ lastOp.ret = 1

\* C2: no operation of the bridge writes a gate's flag, and once the gate
\* installed on a context is signaled every later interrupt check on that
\* context returns abort, as long as the context's hook is not replaced.
C2_SignaledStaysAbort ==
  [][/\ lastOp'.op # "set_flag" => flag' = flag
     /\ \A g \in Gates : flag[g] # 0 => flag'[g] # 0
     /\ \A c \in FmtCtxs :
          (HookSignaled(c) /\ fmt_ctx'[c] = fmt_ctx[c]) =>
            /\ HookSignaled(c)'
            /\ (lastOp'.op = "poll" /\ lastOp'.ctx = c) => lastOp'.ret = 1]_vars

C2_Witness ==
  /\ lastOp.op = "poll"
  /\ lastOp.ret = 1
  /\ HookSignaled(lastOp.ctx)
  /\ sentinels.eagain # {}
  /\ sentinels.eof # {}
  /\ \E c \in CodecCtxs : codec[c].get_format = "ssa_get_hw_format"
  /\ \E c \in FmtCtxs : c # lastOp.ctx /\ Hooked(c)

\* C3: a blocking read in progress on a context whose installed gate is
\* signaled eventually ends with the interruption error, and a read that has
\* observed abort never ends with success or the would-block code.
C3_ReadInterrupted ==
  /\ (reader.pc = "reading" /\ GateSignaled(reader.ctx))
       ~> (reader.pc = "done" /\ reader.ret = AVERROR_EXIT)
  /\ [](reader.pc = "done" =>
          /\ reader.observed # 0 => reader.ret = AVERROR_EXIT
          /\ reader.ret \in {0, AVERROR(EAGAIN)} => reader.observed = 0)

\* the gate was clear at an earlier checkpoint of the read that was interrupted
C3_Witness ==
  /\ reader.pc = "done"
  /\ reader.clear
  /\ reader.observed = 1
  /\ reader.ret = AVERROR_EXIT
  /\ reader.ret # 0
  /\ reader.ret # AVERROR(EAGAIN)

\* C4: install with a null context raises no fault and changes no context's
\* interrupt callback fields, no gate's flag and nothing else.
C4_NullContextNoOp ==
  [][(lastOp'.op = "install" /\ lastOp'.fmt = NULL) =>
       /\ fmt_ctx' = fmt_ctx
       /\ flag' = flag
       /\ ~fault'
       /\ UNCHANGED <<codec, refcount, reader, installed>>]_vars

C4_Witness ==
  /\ lastOp.op = "install"
  /\ lastOp.fmt = NULL
  /\ lastOp.gate # NULL
  /\ \E c \in FmtCtxs : Hooked(c) /\ fmt_ctx[c].opaque = NULL
  /\ \E c \in FmtCtxs : ~Hooked(c)
  /\ flag[lastOp.gate] = 0

\* C5: after any sequence of installs on a context its hook reads exactly the
\* gate of the latest install, and when that gate is null every interrupt
\* check on the context returns continue, whatever the gates' flags are.
C5_LastWriteWins ==
  /\ \A c \in FmtCtxs :
       installed[c] # -1 =>
         fmt_ctx[c] = [callback |-> "ff_interrupt_cb_internal", opaque |-> installed[c]]
  /\ \A c \in FmtCtxs :
       installed[c] = -1 => fmt_ctx[c] = [callback |-> "NULL", opaque |-> NULL]
  /\ (lastOp.op = "poll" /\ installed[lastOp.ctx] = NULL) => lastOp.ret = 0

\* a null gate has just replaced the signaled gate that interrupted the read
C5_Witness ==
  /\ lastOp.op = "install"
  /\ lastOp.fmt # NULL
  /\ lastOp.gate = NULL
  /\ reader.pc = "done"
  /\ reader.ctx = lastOp.fmt
  /\ reader.ret = AVERROR_EXIT
  /\ fmt_ctx[lastOp.fmt].opaque = NULL
  /\ ff_check_interrupt(fmt_ctx, flag, lastOp.fmt) = 0

\* C6: for a candidate list that holds the hardware format at any position
\* the negotiator returns the hardware format.
C6_HardwareSelected ==
  (/\ lastOp.op = "get_format"
   /\ lastOp.hook = "ssa_get_hw_format"
   /\ AV_PIX_FMT_VIDEOTOOLBOX \in Entries(lastOp.pix_fmts))
    => lastOp.ret = AV_PIX_FMT_VIDEOTOOLBOX

\* the hardware format is the last of three candidates
C6_Witness ==
  /\ lastOp.op = "get_format"
  /\ lastOp.hook = "ssa_get_hw_format"
  /\ Len(lastOp.pix_fmts) = 4
  /\ lastOp.pix_fmts[1] \in SoftwareFormats
  /\ lastOp.pix_fmts[2] \in SoftwareFormats
  /\ lastOp.pix_fmts[3] = AV_PIX_FMT_VIDEOTOOLBOX
  /\ lastOp.ret = AV_PIX_FMT_VIDEOTOOLBOX

\* C7: for a candidate list without the hardware format the negotiator
\* returns the first candidate, and whatever the list it returns one of the
\* list's candidates.
C7_FirstSelected ==
  (lastOp.op = "get_format" /\ lastOp.hook = "ssa_get_hw_format") =>
    /\ lastOp.ret \in Entries(lastOp.pix_fmts)
    /\ AV_PIX_FMT_VIDEOTOOLBOX \notin Entries(lastOp.pix_fmts)
         => lastOp.ret = lastOp.pix_fmts[1]

C7_Witness ==
  /\ lastOp.op = "get_format"
  /\ lastOp.hook = "ssa_get_hw_format"
  /\ Len(lastOp.pix_fmts) = 4
  /\ AV_PIX_FMT_VIDEOTOOLBOX \notin Entries(lastOp.pix_fmts)
  /\ lastOp.pix_fmts[3] # lastOp.pix_fmts[1]
  /\ lastOp.ret = lastOp.pix_fmts[1]

\* C8: when device creation fails the setup returns that negative code and
\* leaves the codec context and the buffers as they were; a decode that
\* follows on a context not configured before does not invoke the negotiator.
C8_FailureLeavesContext ==
  [][/\ (lastOp'.op = "setup" /\ lastOp'.err < 0) =>
          /\ lastOp'.ret = lastOp'.err
          /\ lastOp'.ret < 0
          /\ codec' = codec
          /\ refcount' = refcount
     /\ (/\ lastOp.op = "setup"
         /\ lastOp.err < 0
         /\ lastOp.fresh
         /\ lastOp'.op = "get_format"
         /\ lastOp'.ctx = lastOp.ctx) => lastOp'.hook # "ssa_get_hw_format"]_vars

C8_Witness ==
  /\ lastOp.op = "setup"
  /\ lastOp.err = AVERROR(ENOSYS)
  /\ lastOp.ret = AVERROR(ENOSYS)
  /\ lastOp.fresh
  /\ Unconfigured(lastOp.ctx)

\* C9: when the setup returns 0 on a codec context not configured before,
\* the context's hook is the negotiator and the context holds a non-null
\* reference to the new device context, whose reference count is exactly 1.
C9_SuccessOwnsOneReference ==
  (lastOp.op = "setup" /\ lastOp.ret = 0 /\ lastOp.fresh) =>
    LET hw == codec[lastOp.ctx].hw_device_ctx
    IN /\ codec[lastOp.ctx].get_format = "ssa_get_hw_format"
       /\ hw # NULL
       /\ refcount[hw] = 1
       /\ \A c \in CodecCtxs : c # lastOp.ctx => codec[c].hw_device_ctx # hw

\* C10: both sentinel accessors return negative values, distinct from each
\* other, the same on every call whatever happens in between, and a call
\* changes nothing of the bridge's state.
C10_SentinelsStable ==
  /\ [](/\ \A v \in sentinels.eagain \cup sentinels.eof : v < 0
        /\ Cardinality(sentinels.eagain) <= 1
        /\ Cardinality(sentinels.eof) <= 1
        /\ sentinels.eagain \cap sentinels.eof = {}
        /\ lastOp.op = "fferr_eagain" => lastOp.ret \in sentinels.eagain
        /\ lastOp.op = "fferr_eof" => lastOp.ret \in sentinels.eof)
  /\ [][lastOp'.op \in {"fferr_eagain", "fferr_eof"} =>
          UNCHANGED <<flag, fmt_ctx, codec, refcount, reader, fault, installed>>]_vars

C10_Witness ==
  /\ lastOp.op = "fferr_eagain"
  /\ sentinels.eagain # {}
  /\ sentinels.eof # {}
  /\ \E g \in Gates : flag[g] # 0
  /\ \E c \in FmtCtxs : Hooked(c)
  /\ \E c \in CodecCtxs : codec[c].get_format = "ssa_get_hw_format"

====
